---- MODULE Spec2Model ----
(***************************************************************************)
(* The chat endpoint of src/app/api/chat/route.ts: one POST request from   *)
(* body parsing through validation, prompt composition and the event       *)
(* stream that relays the agent runtime's events to the caller.            *)
(*                                                                         *)
(* Text is modelled as text: a chunk of the stream is the string the       *)
(* handler passes to encoder.encode, a JSON body is the string             *)
(* JSON.stringify produces.  TextEncoder.encode maps a string to its UTF-8 *)
(* bytes one to one, so a chunk is written as the string it encodes.       *)
(***************************************************************************)
EXTENDS Naturals, Sequences, FiniteSets, TLC

(***************************************************************************)
(* Bounds of the model.                                                    *)
(***************************************************************************)
MaxMsgs == 2      \* longest `messages` array in a request body
MaxEvents == 3    \* most events the agent iteration yields in one request
MaxConcurrentEvents == 2   \* most events yielded to each of the concurrent handlers

(***************************************************************************)
(* Request bodies.                                                         *)
(***************************************************************************)
SYSTEM_PROMPT == "You are a helpful personal assistant designed to help with general research, questions, and tasks.\n\nYour role is to:\n- Answer questions on any topic accurately and thoroughly\n- Help with research by searching the web for current information\n- Assist with writing, editing, and brainstorming\n- Provide explanations and summaries of complex topics\n- Help solve problems and think through decisions\n\nGuidelines:\n- Be friendly, clear, and conversational\n- Use web search when you need current information, facts you're unsure about, or real-time data\n- Keep responses concise but complete - expand when the topic warrants depth\n- Use markdown formatting when it helps readability (bullet points, code blocks, etc.)\n- Be honest when you don't know something and offer to search for answers"

Roles == {"user", "assistant"}
Contents == {"hi", "ok"}

\* An element of the messages array: a turn, or the JSON value null.
MessageInput == [isNull : {FALSE}, role : Roles, content : Contents]
NullElement == [isNull |-> TRUE, role |-> "", content |-> ""]
Elements == MessageInput \cup {NullElement}

BoundedSeq(S, n) == UNION {[1..k -> S] : k \in 0..n}

\* The value of the `messages` field of the parsed body.  kind is
\*   "undefined"  the field is absent
\*   "null"       the field is null
\*   "falsy"      a falsy value that is not an array (0, "", false)
\*   "truthy"     a truthy value that is not an array (an object, "abc", 7)
\*   "array"      an array, its elements in items
MessagesValues ==
    [kind : {"undefined", "null", "falsy", "truthy"}, items : {<<>>}]
        \cup [kind : {"array"}, items : BoundedSeq(Elements, MaxMsgs)]

NoMessages == [kind |-> "undefined", items |-> <<>>]
NoMessage == [isNull |-> TRUE, role |-> "", content |-> ""]

\* !messages
IsFalsy(m) == m.kind \in {"undefined", "null", "falsy"}
\* Array.isArray(messages)
IsArray(m) == m.kind = "array"

(***************************************************************************)
(* Agent runtime events.                                                   *)
(***************************************************************************)
Texts == {"Hello"}
FailureSubtypes == {"error_max_turns", "error_during_execution"}

TextBlock == [type |-> "text", name |-> ""]
ToolUse(n) == [type |-> "tool_use", name |-> n]

\* message.message.content of an assistant event: an array of blocks, or a
\* value that is not an array.
NotAnArray == [isArray |-> FALSE, blocks |-> <<>>]
Blocks(bs) == [isArray |-> TRUE, blocks |-> bs]
AssistantContents ==
    { NotAnArray,
      Blocks(<<TextBlock>>),
      Blocks(<<ToolUse("Bash"), TextBlock, ToolUse("WebSearch")>>) }

NoContent == NotAnArray

Ev(type, etype, dtype, text, content, tool, elapsed, subtype) ==
    [type |-> type, eventType |-> etype, deltaType |-> dtype, text |-> text,
     content |-> content, tool_name |-> tool, elapsed_time_seconds |-> elapsed,
     subtype |-> subtype]

TextDelta(t) == Ev("stream_event", "content_block_delta", "text_delta", t, NoContent, "", 0, "")
OtherDelta == Ev("stream_event", "content_block_delta", "input_json_delta", "", NoContent, "", 0, "")
Assistant(c) == Ev("assistant", "", "", "", c, "", 0, "")
ToolProgress(t, s) == Ev("tool_progress", "", "", "", NoContent, t, s, "")
Result(st) == Ev("result", "", "", "", NoContent, "", 0, st)
SystemEvent == Ev("system", "", "", "", NoContent, "", 0, "")

AgentEvents ==
    {TextDelta(t) : t \in Texts}
        \cup {OtherDelta, SystemEvent, ToolProgress("Bash", 2), Result("success")}
        \cup {Assistant(c) : c \in AssistantContents}
        \cup {Result(s) : s \in FailureSubtypes}

(***************************************************************************)
(* Wire encoding.                                                          *)
(***************************************************************************)
Quote(s) == "\"" \o s \o "\""

\* JSON.stringify of the five outbound event objects, keys in the order of
\* the object literals.  The texts of the model need no escaping.
Stringify(ev) ==
    CASE ev.type = "text_delta" ->
           "{\"type\":\"text_delta\",\"text\":" \o Quote(ev.text) \o "}"
      [] ev.type = "tool_start" ->
           "{\"type\":\"tool_start\",\"tool\":" \o Quote(ev.tool) \o "}"
      [] ev.type = "tool_progress" ->
           "{\"type\":\"tool_progress\",\"tool\":" \o Quote(ev.tool)
               \o ",\"elapsed\":" \o ToString(ev.elapsed) \o "}"
      [] ev.type = "done" -> "{\"type\":\"done\"}"
      [] ev.type = "error" ->
           "{\"type\":\"error\",\"message\":" \o Quote(ev.message) \o "}"

\* `data: ${JSON.stringify(...)}\n\n`
DataLine(ev) == "data: " \o Stringify(ev) \o "\n\n"

Sentinel == "data: [DONE]\n\n"

Wire(type, text, tool, elapsed, message) ==
    [type |-> type, text |-> text, tool |-> tool, elapsed |-> elapsed, message |-> message]

TextDeltaEvent(t) == Wire("text_delta", t, "", 0, "")
ToolStartEvent(n) == Wire("tool_start", "", n, 0, "")
ToolProgressEvent(n, s) == Wire("tool_progress", "", n, s, "")
DoneEvent == Wire("done", "", "", 0, "")
ErrorEvent(m) == Wire("error", "", "", 0, m)
SentinelMark == Wire("[DONE]", "", "", 0, "")

QueryFailedMessage == "Query did not complete successfully"
StreamErrorMessage == "Stream error occurred"

\* JSON.stringify({ error: msg })
ErrorBody(msg) == "{\"error\":" \o Quote(msg) \o "}"

(***************************************************************************)
(* State.                                                                  *)
(***************************************************************************)
VARIABLES
    pc,               \* position of the handler
    messages,         \* the parsed `messages` field
    lastUserMessage,  \* messages.filter(user).pop()
    fullPrompt,       \* the composite prompt
    toolsUsedCount,
    textChunksCount,
    stream,           \* chunks enqueued on the controller, in order
    sent,             \* for each chunk: the outbound event and the index of
                      \* the agent event that triggered it (0: none)
    closeCount,       \* calls of controller.close()
    response,         \* the Response the handler returned
    telemetry,        \* Sentry.logger / Sentry.metrics calls, in order
    iteration,        \* the agent iteration: "unopened", "open", "exhausted",
                      \* "threw" (an advance threw), "failed" (query() threw)
    queryCalls,       \* calls of query()
    seen,             \* agent events the iteration yielded, in order
    handlers          \* the invocations of POST that run side by side: for each
                      \* its position, its own locals, its own controller and the
                      \* agent events its own iteration yielded

vars == <<pc, messages, lastUserMessage, fullPrompt, toolsUsedCount, textChunksCount,
          stream, sent, closeCount, response, telemetry, iteration, queryCalls, seen,
          handlers>>

\* Invocations of POST in flight together.  Each call of POST has its own
\* activation: the `let` counters of lines 87-88, the ReadableStream of line
\* 93 and the iteration of line 97 are created inside the call.
Requests == {1, 2}

Invocation ==
    [pc |-> "composed", toolsUsedCount |-> 0, textChunksCount |-> 0, stream |-> <<>>,
     sent |-> <<>>, telemetry |-> <<>>, seen |-> <<>>, closeCount |-> 0]

NoResponse == [status |-> 0, contentType |-> "", body |-> ""]
JsonResponse(st, body) == [status |-> st, contentType |-> "application/json", body |-> body]
\* new Response(stream, {headers}): the status defaults to 200, the body is the stream
StreamResponse == [status |-> 200, contentType |-> "text/event-stream", body |-> "<stream>"]

Init ==
    /\ pc = "start"
    /\ messages = NoMessages
    /\ lastUserMessage = NoMessage
    /\ fullPrompt = ""
    /\ toolsUsedCount = 0
    /\ textChunksCount = 0
    /\ stream = <<>>
    /\ sent = <<>>
    /\ closeCount = 0
    /\ response = NoResponse
    /\ telemetry = <<>>
    /\ iteration = "unopened"
    /\ queryCalls = 0
    /\ seen = <<>>
    /\ handlers = [h \in Requests |-> Invocation]

(***************************************************************************)
(* Telemetry: the Sentry.logger and Sentry.metrics calls.  Durations are   *)
(* wall-clock differences and carry no value in the model.                 *)
(***************************************************************************)
\* What a throw statement or a rejected promise carries: an Error with its
\* message, or a value that is not an Error.
ThrownValues ==
    { [isError |-> TRUE, message |-> "spawn claude ENOENT"],
      [isError |-> FALSE, message |-> ""] }

\* the TypeError of reading a property of null, line 52
NullRoleError ==
    [isError |-> TRUE, message |-> "Cannot read properties of null (reading 'role')"]

\* error instanceof Error ? error.message : 'Unknown error'
ErrorMessageOf(error) == IF error.isError THEN error.message ELSE "Unknown error"

\* error instanceof Error ? error.stack : undefined
ErrorStackOf(error) ==
    IF error.isError THEN "Error: " \o error.message \o "\n    at <frames>" ELSE "undefined"

Log(level, msg) == [sink |-> level, name |-> msg]
LogWith(level, msg, attrs) == [sink |-> level, name |-> msg, attrs |-> attrs]
Count(name, attrs) == [sink |-> "metrics.count", name |-> name, value |-> 1, attrs |-> attrs]
CountPlain(name) == [sink |-> "metrics.count", name |-> name, value |-> 1]
Distribution(name, value, attrs) ==
    [sink |-> "metrics.distribution", name |-> name, value |-> value, attrs |-> attrs]
Duration(name, attrs) == [sink |-> "metrics.distribution", name |-> name, attrs |-> attrs]

(***************************************************************************)
(* The top-level catch block: lines 221-241.                               *)
(***************************************************************************)
ApiErrorTelemetry(error) ==
    << LogWith("logger.error", "Chat API error",
               [error |-> ErrorMessageOf(error), stack |-> ErrorStackOf(error)]),
       Count("chat.api.error", [error_type |-> "api_error"]),
       Duration("chat.api.duration", [status |-> "error"]) >>

ApiErrorResponse ==
    JsonResponse(500, ErrorBody("Failed to process chat request. Check server logs for details."))

(***************************************************************************)
(* await request.json(), line 29.  The promise rejects (the body is not    *)
(* JSON) or the destructuring throws (the body is null): the top-level     *)
(* catch answers.  Otherwise `messages` is the field of the parsed body.   *)
(***************************************************************************)
ParseBodyFails ==
    /\ pc = "start"
    /\ pc' = "responded"
    /\ \E error \in ThrownValues : telemetry' = telemetry \o ApiErrorTelemetry(error)
    /\ response' = ApiErrorResponse
    /\ UNCHANGED <<handlers, messages, lastUserMessage, fullPrompt, toolsUsedCount, textChunksCount,
                   stream, sent, closeCount, iteration, queryCalls, seen>>

ParseBody ==
    /\ pc = "start"
    /\ \E m \in MessagesValues : messages' = m
    /\ pc' = "parsed"
    /\ UNCHANGED <<handlers, lastUserMessage, fullPrompt, toolsUsedCount, textChunksCount, stream, sent,
                   closeCount, response, telemetry, iteration, queryCalls, seen>>

(***************************************************************************)
(* Validation, lines 31-62.                                                *)
(***************************************************************************)
\* messages?.length || 0 (a value that is not an array has no length here)
MessageCount(m) == IF IsArray(m) THEN Len(m.items) ELSE 0

RequestTelemetry(m) ==
    << Count("chat.api.request", [endpoint |-> "/api/chat"]),
       LogWith("logger.info", "Chat API request received", [messageCount |-> MessageCount(m)]) >>

\* UserMessages keeping the turns of every role.
UserMessagesOfAnyRole(items) == SelectSeq(items, LAMBDA m : m.role # "")

\* messages.filter(m => m.role === 'user')
UserMessages(items) == SelectSeq(items, LAMBDA m : m.role = "user")

\* reading m.role of a null element throws a TypeError
FilterThrows(items) == \E i \in 1..Len(items) : items[i].isNull

Validate ==
    /\ pc = "parsed"
    /\ IF IsFalsy(messages) \/ ~IsArray(messages)
       THEN /\ telemetry' = telemetry \o RequestTelemetry(messages) \o
                   << Log("logger.warn", "Invalid request: messages array missing or invalid"),
                      Count("chat.api.error", [error_type |-> "invalid_messages"]) >>
            /\ response' = JsonResponse(400, ErrorBody("Messages array is required"))
            /\ pc' = "responded"
            /\ UNCHANGED lastUserMessage
       ELSE IF FilterThrows(messages.items)
       THEN /\ telemetry' = telemetry \o RequestTelemetry(messages) \o ApiErrorTelemetry(NullRoleError)
            /\ response' = ApiErrorResponse
            /\ pc' = "responded"
            /\ UNCHANGED lastUserMessage
       ELSE IF UserMessages(messages.items) = <<>>
       THEN /\ telemetry' = telemetry \o RequestTelemetry(messages) \o
                   << Log("logger.warn", "Invalid request: no user message found"),
                      Count("chat.api.error", [error_type |-> "no_user_message"]) >>
            /\ response' = JsonResponse(400, ErrorBody("No user message found"))
            /\ pc' = "responded"
            /\ UNCHANGED lastUserMessage
       ELSE /\ telemetry' = telemetry \o RequestTelemetry(messages)
            /\ lastUserMessage' =
                   UserMessages(messages.items)[Len(UserMessages(messages.items))]
            /\ pc' = "validated"
            /\ UNCHANGED response
    /\ UNCHANGED <<handlers, messages, fullPrompt, toolsUsedCount, textChunksCount, stream, sent,
                   closeCount, iteration, queryCalls, seen>>

(***************************************************************************)
(* Prompt composition, lines 64-91.                                        *)
(***************************************************************************)
\* `${m.role === 'user' ? 'User' : 'Assistant'}: ${m.content}`
Render(m) == (IF m.role = "user" THEN "User" ELSE "Assistant") \o ": " \o m.content

\* Array.prototype.join
RECURSIVE Join(_, _)
Join(strs, sep) ==
    IF strs = <<>> THEN ""
    ELSE IF Len(strs) = 1 THEN strs[1]
    ELSE strs[1] \o sep \o Join(Tail(strs), sep)

\* messages.slice(0, -1)
AllButLast(items) == SubSeq(items, 1, Len(items) - 1)

ConversationContext(items) ==
    Join([i \in 1..Len(AllButLast(items)) |-> Render(AllButLast(items)[i])], "\n\n")

\* FullPrompt taking the active prompt from the last turn of the list.
FullPromptFromLastTurn(items, last) ==
    IF ConversationContext(items) # ""
    THEN SYSTEM_PROMPT \o "\n\nPrevious conversation:\n" \o ConversationContext(items)
             \o "\n\nUser: " \o items[Len(items)].content
    ELSE SYSTEM_PROMPT \o "\n\nUser: " \o items[Len(items)].content

FullPrompt(items, last) ==
    IF ConversationContext(items) # ""
    THEN SYSTEM_PROMPT \o "\n\nPrevious conversation:\n" \o ConversationContext(items)
             \o "\n\nUser: " \o last.content
    ELSE SYSTEM_PROMPT \o "\n\nUser: " \o last.content

Compose ==
    /\ pc = "validated"
    /\ telemetry' = telemetry \o
           << Distribution("chat.message.length", Len(lastUserMessage.content),
                           [type |-> "user_message"]),
              LogWith("logger.info", "Processing chat request",
                      [conversationLength |-> Len(messages.items),
                       lastMessageLength |-> Len(lastUserMessage.content)]),
              Log("logger.info", "Starting Claude Agent SDK query") >>
    /\ fullPrompt' = FullPrompt(messages.items, lastUserMessage)
    /\ toolsUsedCount' = 0
    /\ textChunksCount' = 0
    /\ pc' = "composed"
    /\ UNCHANGED <<handlers, messages, lastUserMessage, stream, sent, closeCount, response, iteration,
                   queryCalls, seen>>

(***************************************************************************)
(* The stream producer, lines 93-212.  The state the loop body works on    *)
(* is gathered in a record so that the handlers compose in program order.  *)
(***************************************************************************)
Translator ==
    [stream |-> stream, sent |-> sent, toolsUsedCount |-> toolsUsedCount,
     textChunksCount |-> textChunksCount, telemetry |-> telemetry]

\* Enqueue with the chunk put at the head of the queue.
EnqueueAtFront(st, chunk, ev, src) ==
    [st EXCEPT !.stream = <<chunk>> \o @,
               !.sent = <<[event |-> ev, src |-> src]>> \o @]

\* controller.enqueue(encoder.encode(chunk)); src is the index of the agent
\* event being processed
Enqueue(st, chunk, ev, src) ==
    [st EXCEPT !.stream = Append(@, chunk),
               !.sent = Append(@, [event |-> ev, src |-> src])]

EnqueueEvent(st, ev, src) == Enqueue(st, DataLine(ev), ev, src)

Emit(st, entries) == [st EXCEPT !.telemetry = @ \o entries]

\* HandleStreamEvent counting every stream event as a text chunk.
HandleStreamEventCountingAll(st, message, src) ==
    IF message.type = "stream_event"
    THEN IF message.eventType = "content_block_delta" /\ message.deltaType = "text_delta"
         THEN [st EXCEPT !.textChunksCount = @ + 1,
                         !.stream = Append(@, DataLine(TextDeltaEvent(message.text))),
                         !.sent = Append(@, [event |-> TextDeltaEvent(message.text), src |-> src])]
         ELSE [st EXCEPT !.textChunksCount = @ + 1]
    ELSE st

\* lines 112-122
HandleStreamEvent(st, message, src) ==
    IF message.type = "stream_event"
          /\ message.eventType = "content_block_delta" /\ message.deltaType = "text_delta"
    THEN EnqueueEvent([st EXCEPT !.textChunksCount = @ + 1], TextDeltaEvent(message.text), src)
    ELSE st

\* HandleBlock without the test of the block's type.
HandleBlockOfAnyType(st, block, src) ==
    [st EXCEPT !.toolsUsedCount = @ + 1,
               !.telemetry = @ \o << LogWith("logger.info", "Tool invoked", [tool |-> block.name]),
                                     Count("chat.tool.invocation", [tool_name |-> block.name]) >>,
               !.stream = Append(@, DataLine(ToolStartEvent(block.name))),
               !.sent = Append(@, [event |-> ToolStartEvent(block.name), src |-> src])]

\* lines 129-138, one block
HandleBlock(st, block, src) ==
    IF block.type = "tool_use"
    THEN EnqueueEvent(
             Emit([st EXCEPT !.toolsUsedCount = @ + 1],
                  << LogWith("logger.info", "Tool invoked", [tool |-> block.name]),
                     Count("chat.tool.invocation", [tool_name |-> block.name]) >>),
             ToolStartEvent(block.name), src)
    ELSE st

\* for (const block of content)
RECURSIVE ForEachBlock(_, _, _)
ForEachBlock(st, blocks, src) ==
    IF blocks = <<>> THEN st
    ELSE ForEachBlock(HandleBlock(st, Head(blocks), src), Tail(blocks), src)

\* lines 124-141
HandleAssistant(st, message, src) ==
    IF message.type = "assistant" /\ message.content.isArray
    THEN ForEachBlock(st, message.content.blocks, src)
    ELSE st

\* HandleToolProgress counting the notice as a tool invocation.
HandleToolProgressCounting(st, message, src) ==
    IF message.type = "tool_progress"
    THEN [st EXCEPT !.toolsUsedCount = @ + 1,
                    !.stream = Append(@, DataLine(ToolProgressEvent(message.tool_name,
                                                      message.elapsed_time_seconds))),
                    !.sent = Append(@, [event |-> ToolProgressEvent(message.tool_name,
                                                      message.elapsed_time_seconds),
                                        src |-> src])]
    ELSE st

\* lines 143-148
HandleToolProgress(st, message, src) ==
    IF message.type = "tool_progress"
    THEN EnqueueEvent(st, ToolProgressEvent(message.tool_name, message.elapsed_time_seconds), src)
    ELSE st

\* HandleSuccess resetting the counters once they are reported.
HandleSuccessResettingCounters(st, message, src) ==
    IF message.type = "result" /\ message.subtype = "success"
    THEN [st EXCEPT !.telemetry = @ \o
                        << LogWith("logger.info", "Chat request completed successfully",
                                   [toolsUsed |-> st.toolsUsedCount,
                                    textChunks |-> st.textChunksCount]),
                           CountPlain("chat.api.success"),
                           Duration("chat.api.duration", [status |-> "success"]),
                           Distribution("chat.stream.chunks", st.textChunksCount,
                                        [unit |-> "none"]),
                           Distribution("chat.tools.count", st.toolsUsedCount,
                                        [unit |-> "none"]) >>,
                    !.stream = Append(@, DataLine(DoneEvent)),
                    !.sent = Append(@, [event |-> DoneEvent, src |-> src]),
                    !.toolsUsedCount = 0,
                    !.textChunksCount = 0]
    ELSE st

\* lines 150-178
HandleSuccess(st, message, src) ==
    IF message.type = "result" /\ message.subtype = "success"
    THEN EnqueueEvent(
             Emit(st,
                  << LogWith("logger.info", "Chat request completed successfully",
                             [toolsUsed |-> st.toolsUsedCount, textChunks |-> st.textChunksCount]),
                     CountPlain("chat.api.success"),
                     Duration("chat.api.duration", [status |-> "success"]),
                     Distribution("chat.stream.chunks", st.textChunksCount, [unit |-> "none"]),
                     Distribution("chat.tools.count", st.toolsUsedCount, [unit |-> "none"]) >>),
             DoneEvent, src)
    ELSE st

\* HandleFailure that also lets the done event through for a failed result.
HandleFailureThenDone(st, message, src) ==
    IF message.type = "result" /\ message.subtype # "success"
    THEN [st EXCEPT !.telemetry = @ \o
                        << LogWith("logger.error", "Chat query did not complete successfully",
                                   [subtype |-> message.subtype]),
                           Count("chat.api.failure", [subtype |-> message.subtype]) >>,
                    !.stream = @ \o << DataLine(ErrorEvent(QueryFailedMessage)),
                                       DataLine(DoneEvent) >>,
                    !.sent = @ \o << [event |-> ErrorEvent(QueryFailedMessage), src |-> src],
                                     [event |-> DoneEvent, src |-> src] >>]
    ELSE st

\* lines 180-191
HandleFailure(st, message, src) ==
    IF message.type = "result" /\ message.subtype # "success"
    THEN EnqueueEvent(
             Emit(st,
                  << LogWith("logger.error", "Chat query did not complete successfully",
                             [subtype |-> message.subtype]),
                     Count("chat.api.failure", [subtype |-> message.subtype]) >>),
             ErrorEvent(QueryFailedMessage), src)
    ELSE st

\* the body of the for await loop, lines 112-191
ProcessMessage(st, message, src) ==
    HandleFailure(
        HandleSuccess(
            HandleToolProgress(
                HandleAssistant(
                    HandleStreamEvent(st, message, src),
                    message, src),
                message, src),
            message, src),
        message, src)

\* AfterLoop without the sentinel.
AfterLoopWithoutSentinel(st) == st

\* lines 194-195, up to the close
AfterLoop(st) == Enqueue(st, Sentinel, SentinelMark, 0)

\* CatchStreamError replacing what was enqueued by the error event.
CatchStreamErrorRetracting(st, error) ==
    [st EXCEPT !.telemetry = @ \o
                    << LogWith("logger.error", "Stream processing error",
                               [error |-> ErrorMessageOf(error), toolsUsed |-> st.toolsUsedCount,
                                textChunks |-> st.textChunksCount]),
                       Count("chat.stream.error", [error_type |-> "stream_processing"]) >>,
                !.stream = <<DataLine(ErrorEvent(StreamErrorMessage))>>,
                !.sent = <<[event |-> ErrorEvent(StreamErrorMessage), src |-> 0]>>]

\* CatchStreamError sending the caught error's message to the caller.
CatchStreamErrorLeaking(st, error) ==
    [st EXCEPT !.telemetry = @ \o
                    << LogWith("logger.error", "Stream processing error",
                               [error |-> ErrorMessageOf(error), toolsUsed |-> st.toolsUsedCount,
                                textChunks |-> st.textChunksCount]),
                       Count("chat.stream.error", [error_type |-> "stream_processing"]) >>,
                !.stream = Append(@, DataLine(ErrorEvent(ErrorMessageOf(error)))),
                !.sent = Append(@, [event |-> ErrorEvent(ErrorMessageOf(error)), src |-> 0])]

\* the catch block of the producer, lines 196-210, up to the close
CatchStreamError(st, error) ==
    EnqueueEvent(
        Emit(st,
             << LogWith("logger.error", "Stream processing error",
                        [error |-> ErrorMessageOf(error), toolsUsed |-> st.toolsUsedCount,
                         textChunks |-> st.textChunksCount]),
                Count("chat.stream.error", [error_type |-> "stream_processing"]) >>),
        ErrorEvent(StreamErrorMessage), 0)

Commit(st) ==
    /\ stream' = st.stream
    /\ sent' = st.sent
    /\ toolsUsedCount' = st.toolsUsedCount
    /\ textChunksCount' = st.textChunksCount
    /\ telemetry' = st.telemetry

(***************************************************************************)
(* new ReadableStream({ start }) and the return of the Response, lines     *)
(* 93-111 and 214-220.  The constructor calls start() at once and start()  *)
(* runs up to its first await, so the call of query() happens here, inside *)
(* the producer's try block.  query() returns the iteration or throws.     *)
(***************************************************************************)
OpenStream ==
    /\ pc = "composed"
    /\ queryCalls' = queryCalls + 1
    /\ iteration' = "open"
    /\ response' = StreamResponse
    /\ pc' = "streaming"
    /\ UNCHANGED <<handlers, messages, lastUserMessage, fullPrompt, toolsUsedCount, textChunksCount,
                   stream, sent, closeCount, telemetry, seen>>

\* OpenStreamQueryThrows answering with the top-level catch's response.
OpenStreamQueryThrowsAnswering500 ==
    /\ pc = "composed"
    /\ queryCalls' = queryCalls + 1
    /\ iteration' = "failed"
    /\ \E error \in ThrownValues : telemetry' = telemetry \o ApiErrorTelemetry(error)
    /\ response' = ApiErrorResponse
    /\ pc' = "responded"
    /\ UNCHANGED <<handlers, messages, lastUserMessage, fullPrompt, toolsUsedCount, textChunksCount,
                   stream, sent, closeCount, seen>>

OpenStreamQueryThrows ==
    /\ pc = "composed"
    /\ queryCalls' = queryCalls + 1
    /\ iteration' = "failed"
    /\ \E error \in ThrownValues : Commit(CatchStreamError(Translator, error))
    /\ closeCount' = closeCount + 1
    /\ response' = StreamResponse
    /\ pc' = "finished"
    /\ UNCHANGED <<handlers, messages, lastUserMessage, fullPrompt, seen>>

(***************************************************************************)
(* One advance of the agent iteration: it yields an event, which the loop  *)
(* body processes; or it is exhausted; or it throws.                       *)
(***************************************************************************)
Yield ==
    /\ pc = "streaming"
    /\ Len(seen) < MaxEvents
    /\ \E message \in AgentEvents :
          /\ seen' = Append(seen, message)
          /\ Commit(ProcessMessage(Translator, message, Len(seen) + 1))
    /\ UNCHANGED <<handlers, pc, messages, lastUserMessage, fullPrompt, closeCount, response,
                   iteration, queryCalls>>

\* Exhausted leaving the producer in its loop after the close.
ExhaustedStillStreaming ==
    /\ pc = "streaming"
    /\ iteration' = "exhausted"
    /\ Commit(AfterLoop(Translator))
    /\ closeCount' = closeCount + 1
    /\ UNCHANGED <<handlers, pc, messages, lastUserMessage, fullPrompt, response, queryCalls, seen>>

Exhausted ==
    /\ pc = "streaming"
    /\ iteration' = "exhausted"
    /\ Commit(AfterLoop(Translator))
    /\ closeCount' = closeCount + 1
    /\ pc' = "finished"
    /\ UNCHANGED <<handlers, messages, lastUserMessage, fullPrompt, response, queryCalls, seen>>

\* Throws without the close of the catch block.
ThrowsLeavingOpen ==
    /\ pc = "streaming"
    /\ iteration' = "threw"
    /\ \E error \in ThrownValues : Commit(CatchStreamError(Translator, error))
    /\ pc' = "finished"
    /\ UNCHANGED <<handlers, messages, lastUserMessage, fullPrompt, closeCount, response, queryCalls,
                   seen>>

Throws ==
    /\ pc = "streaming"
    /\ iteration' = "threw"
    /\ \E error \in ThrownValues : Commit(CatchStreamError(Translator, error))
    /\ closeCount' = closeCount + 1
    /\ pc' = "finished"
    /\ UNCHANGED <<handlers, messages, lastUserMessage, fullPrompt, response, queryCalls, seen>>

(***************************************************************************)
(* Handlers side by side.  JavaScript runs one handler at a time and       *)
(* switches between them only at an await: here, the advance of the        *)
(* for-await loop (line 97).  The body of the loop has no await, so one    *)
(* event is processed in one step, and steps of different handlers         *)
(* interleave in any order.                                                *)
(***************************************************************************)
ConcurrentEvents ==
    { TextDelta("Hello"),
      Assistant(Blocks(<<ToolUse("Bash"), TextBlock, ToolUse("WebSearch")>>)),
      ToolProgress("Bash", 2),
      Result("success") }

ofOneRequest ==
    <<pc, messages, lastUserMessage, fullPrompt, toolsUsedCount, textChunksCount,
      stream, sent, closeCount, response, telemetry, iteration, queryCalls, seen>>

\* the locals and the controller of one invocation
LocalsOf(r) ==
    [stream |-> r.stream, sent |-> r.sent, toolsUsedCount |-> r.toolsUsedCount,
     textChunksCount |-> r.textChunksCount, telemetry |-> r.telemetry]

\* StoreLocals with the two counters declared at module level, one pair for
\* all invocations.
StoreLocalsInModuleScope(hs, h, st) ==
    [g \in DOMAIN hs |->
        IF g = h
        THEN [hs[g] EXCEPT !.stream = st.stream, !.sent = st.sent,
                           !.toolsUsedCount = st.toolsUsedCount,
                           !.textChunksCount = st.textChunksCount,
                           !.telemetry = st.telemetry]
        ELSE [hs[g] EXCEPT !.toolsUsedCount = st.toolsUsedCount,
                           !.textChunksCount = st.textChunksCount]]

\* The assignments of a step of invocation h go to h's own locals (lines
\* 87-88) and h's own controller (line 93).
StoreLocals(hs, h, st) ==
    [g \in DOMAIN hs |->
        IF g = h
        THEN [hs[g] EXCEPT !.stream = st.stream, !.sent = st.sent,
                           !.toolsUsedCount = st.toolsUsedCount,
                           !.textChunksCount = st.textChunksCount,
                           !.telemetry = st.telemetry]
        ELSE hs[g]]

\* lines 87-111: the counters are declared, the stream is made, query() returns
ConcurrentOpen ==
    \E h \in Requests :
        /\ handlers[h].pc = "composed"
        /\ handlers' = [handlers EXCEPT ![h].pc = "streaming",
                                        ![h].toolsUsedCount = 0,
                                        ![h].textChunksCount = 0]
        /\ UNCHANGED ofOneRequest

ConcurrentYield ==
    \E h \in Requests :
        /\ handlers[h].pc = "streaming"
        /\ Len(handlers[h].seen) < MaxConcurrentEvents
        /\ \E message \in ConcurrentEvents :
              handlers' =
                  [StoreLocals(handlers, h,
                       ProcessMessage(LocalsOf(handlers[h]), message,
                                      Len(handlers[h].seen) + 1))
                   EXCEPT ![h].seen = Append(@, message)]
        /\ UNCHANGED ofOneRequest

ConcurrentExhausted ==
    \E h \in Requests :
        /\ handlers[h].pc = "streaming"
        /\ handlers' = [StoreLocals(handlers, h, AfterLoop(LocalsOf(handlers[h])))
                        EXCEPT ![h].closeCount = @ + 1, ![h].pc = "finished"]
        /\ UNCHANGED ofOneRequest

ConcurrentThrows ==
    \E h \in Requests :
        /\ handlers[h].pc = "streaming"
        /\ \E error \in ThrownValues :
              handlers' =
                  [StoreLocals(handlers, h, CatchStreamError(LocalsOf(handlers[h]), error))
                   EXCEPT ![h].closeCount = @ + 1, ![h].pc = "finished"]
        /\ UNCHANGED ofOneRequest

Next ==
    \/ ParseBodyFails
    \/ ParseBody
    \/ Validate
    \/ Compose
    \/ OpenStream
    \/ OpenStreamQueryThrows
    \/ Yield
    \/ Exhausted
    \/ Throws

Spec == Init /\ [][Next]_vars

NextConcurrent ==
    \/ ConcurrentOpen
    \/ ConcurrentYield
    \/ ConcurrentExhausted
    \/ ConcurrentThrows

\* the requests of `Requests` in flight together
SpecConcurrent == Init /\ [][NextConcurrent]_vars

(***************************************************************************)
(* Vocabulary of the properties.                                           *)
(***************************************************************************)
Last(s) == s[Len(s)]
Front(s) == SubSeq(s, 1, Len(s) - 1)

\* the number of entries of s that satisfy P
CountIn(s, P(_)) == Len(SelectSeq(s, P))

IsTextDelta(m) ==
    m.type = "stream_event" /\ m.eventType = "content_block_delta" /\ m.deltaType = "text_delta"
IsSuccess(m) == m.type = "result" /\ m.subtype = "success"
IsFailure(m) == m.type = "result" /\ m.subtype # "success"

\* the request was parsed and the validator has run
ValidatorRan == \E i \in 1..Len(telemetry) : telemetry[i].name = "chat.api.request"
\* the top-level catch block has run
ApiErrorCaught == \E i \in 1..Len(telemetry) : telemetry[i].name = "Chat API error"
\* the number of chat.api.error counters tagged with `tag`
ApiErrorCounted(tag) ==
    CountIn(telemetry, LAMBDA t : t.name = "chat.api.error" /\ t.attrs.error_type = tag)
StreamErrorCounted ==
    CountIn(telemetry, LAMBDA t : t.name = "chat.stream.error"
                                     /\ t.attrs.error_type = "stream_processing")
StreamReturned == response.contentType = "text/event-stream"
Closed == closeCount > 0
SentOfType(ty) == CountIn(sent, LAMBDA c : c.event.type = ty)

\* The translation table of section 4.4 of the specification: the outbound
\* events one agent event gives rise to.
ToolStartsOf(blocks) ==
    [i \in 1..Len(SelectSeq(blocks, LAMBDA b : b.type = "tool_use")) |->
        ToolStartEvent(SelectSeq(blocks, LAMBDA b : b.type = "tool_use")[i].name)]

OutboundOf(m) ==
    CASE IsTextDelta(m) -> <<TextDeltaEvent(m.text)>>
      [] m.type = "assistant" /\ m.content.isArray -> ToolStartsOf(m.content.blocks)
      [] m.type = "tool_progress" ->
             <<ToolProgressEvent(m.tool_name, m.elapsed_time_seconds)>>
      [] IsSuccess(m) -> <<DoneEvent>>
      [] IsFailure(m) -> <<ErrorEvent(QueryFailedMessage)>>
      [] OTHER -> <<>>

RECURSIVE Translation(_)
Translation(events) ==
    IF events = <<>> THEN <<>> ELSE OutboundOf(Head(events)) \o Translation(Tail(events))

Lines(events) == [i \in 1..Len(events) |-> DataLine(events[i])]
EventsSent == [i \in 1..Len(sent) |-> sent[i].event]

(***************************************************************************)
(* C1.  Every event stream ends with the sentinel: when the stream is      *)
(* closed, the last chunk enqueued is `data: [DONE]\n\n`, on the normal    *)
(* path and on the exception path alike.                                   *)
(* The producer's catch block closes after the error event without the     *)
(* sentinel, so the statement fails.                                       *)
(***************************************************************************)
C1_ClosedStreamEndsWithSentinel ==
    Closed => stream # <<>> /\ Last(stream) = "data: [DONE]\n\n"

(***************************************************************************)
(* C2.  A body whose messages field is missing, is not an array or is an   *)
(* empty array is answered with status 400 and the body                    *)
(* {"error":"Messages array is required"}, counted under the invalid       *)
(* messages kind and not under no_user_message, and no stream is opened.   *)
(* An empty array passes the first check and is answered by the            *)
(* no-user-message branch, so the statement fails.                         *)
(***************************************************************************)
C2_MissingMalformedOrEmptyRejected ==
    (ValidatorRan /\ pc # "parsed" /\ (~IsArray(messages) \/ messages.items = <<>>)) =>
        /\ response = JsonResponse(400, "{\"error\":\"Messages array is required\"}")
        /\ ApiErrorCounted("invalid_messages") = 1
        /\ ApiErrorCounted("no_user_message") = 0
        /\ stream = <<>> /\ queryCalls = 0 /\ ~StreamReturned

(***************************************************************************)
(* C3.  A failure before streaming starts, the call of query() throwing    *)
(* included, is answered with status 500 and the fixed JSON error body,    *)
(* counted under api_error, and no event stream is returned.               *)
(* query() is called inside the producer's try block, so its exception is  *)
(* answered by an event stream with status 200: the statement fails.       *)
(***************************************************************************)
C3_FailureBeforeStreamingIs500 ==
    (ApiErrorCaught \/ iteration = "failed") =>
        /\ response = JsonResponse(500,
               "{\"error\":\"Failed to process chat request. Check server logs for details.\"}")
        /\ ApiErrorCounted("api_error") = 1
        /\ ~StreamReturned

(***************************************************************************)
(* C4.  When an advance of the agent iteration throws, the chunks already  *)
(* enqueued stay in the stream unchanged and in order, exactly one error   *)
(* event with the generic message is appended after them, one              *)
(* chat.stream.error counter tagged stream_processing is emitted, the      *)
(* stream is closed (once), and the response stays the 200 event stream.   *)
(***************************************************************************)
C4_StreamErrorKeepsPartialStream ==
    [][(iteration = "open" /\ iteration' = "threw") =>
          /\ stream' = Append(stream,
                 "data: {\"type\":\"error\",\"message\":\"Stream error occurred\"}\n\n")
          /\ EventsSent' = Append(EventsSent, ErrorEvent("Stream error occurred"))
          /\ Len(telemetry') = Len(telemetry) + 2
          /\ SubSeq(telemetry', 1, Len(telemetry)) = telemetry
          /\ StreamErrorCounted = 0 /\ StreamErrorCounted' = 1
          /\ closeCount = 0 /\ closeCount' = 1
          /\ response = StreamResponse /\ response' = response
          /\ response.status = 200]_vars

C4_Witness ==
    /\ iteration = "threw"
    /\ Len(stream) >= 3
    /\ sent[1].event.type = "tool_start"
    /\ Last(sent).event = ErrorEvent(StreamErrorMessage)

(***************************************************************************)
(* C5.  Outbound events are emitted in the order of the agent events that  *)
(* trigger them: an event triggered by an earlier agent event comes        *)
(* earlier in the stream, every event is enqueued while its trigger is the *)
(* latest agent event seen, and the triggered events are, in order, the    *)
(* translations of the agent events seen so far.                           *)
(***************************************************************************)
C5_OutboundOrderFollowsAgentOrder ==
    /\ \A i, j \in 1..Len(sent) :
          (sent[i].src > 0 /\ sent[j].src > 0 /\ sent[i].src < sent[j].src) => i < j
    /\ \A i \in 1..Len(sent) : sent[i].src <= Len(seen)
    /\ LET triggered == SelectSeq(sent, LAMBDA c : c.src > 0)
       IN  [i \in 1..Len(triggered) |-> triggered[i].event] = Translation(seen)

C5_Witness ==
    /\ Len(seen) = 3
    /\ \E i, j, k \in 1..Len(sent) :
          /\ i < j /\ j < k
          /\ sent[i].src = 1 /\ sent[j].src = 1 /\ sent[k].src = 3
          /\ sent[i].event # sent[k].event

(***************************************************************************)
(* C6.  The tool_start events of the stream are, in order and by name, the *)
(* tool_use blocks of the assistant messages seen so far, one per block    *)
(* and none for blocks of other types, and toolsUsedCount is the number of *)
(* those blocks.                                                           *)
(***************************************************************************)
RECURSIVE ToolUsesSeen(_)
ToolUsesSeen(events) ==
    IF events = <<>> THEN <<>>
    ELSE (IF Head(events).type = "assistant" /\ Head(events).content.isArray
          THEN LET uses == SelectSeq(Head(events).content.blocks, LAMBDA b : b.type = "tool_use")
               IN  [i \in 1..Len(uses) |-> uses[i].name]
          ELSE <<>>) \o ToolUsesSeen(Tail(events))

ToolStartsSent ==
    LET starts == SelectSeq(sent, LAMBDA c : c.event.type = "tool_start")
    IN  [i \in 1..Len(starts) |-> starts[i].event.tool]

C6_ToolStartPerToolUseBlock ==
    /\ ToolStartsSent = ToolUsesSeen(seen)
    /\ toolsUsedCount = Len(ToolUsesSeen(seen))

C6_Witness ==
    /\ toolsUsedCount = 4
    /\ ToolStartsSent = <<"Bash", "WebSearch", "Bash", "WebSearch">>
    /\ Len(seen) = 3

(***************************************************************************)
(* C7.  When a success result has just been processed, the textChunks      *)
(* value of the completion log is the number of text-delta agent events    *)
(* seen so far, which is also the number of text_delta events emitted.     *)
(***************************************************************************)
CompletionLogs == SelectSeq(telemetry, LAMBDA t : t.name = "Chat request completed successfully")

C7_TextChunksLoggedAtSuccess ==
    (seen # <<>> /\ IsSuccess(Last(seen))) =>
        /\ CompletionLogs # <<>>
        /\ Last(CompletionLogs).attrs.textChunks = CountIn(seen, IsTextDelta)
        /\ Last(CompletionLogs).attrs.textChunks = SentOfType("text_delta")

C7_Witness ==
    /\ pc = "streaming"
    /\ seen = <<TextDelta("Hello"), TextDelta("Hello"), Result("success")>>
    /\ Last(CompletionLogs).attrs.textChunks = 2

(***************************************************************************)
(* C8.  When the agent events end with a success result and the iteration  *)
(* is then exhausted, the stream is the translated events of what came     *)
(* before, then the done event of that result, then the sentinel, and it   *)
(* is closed; there is exactly one done event per success result, so one   *)
(* for a sequence whose only success result is its last event.  For one    *)
(* text delta "Hello" and the success result the stream is exactly the     *)
(* three lines text_delta "Hello", done, [DONE].                           *)
(***************************************************************************)
C8_SuccessStreamShape ==
    (iteration = "exhausted" /\ seen # <<>> /\ IsSuccess(Last(seen))) =>
        /\ stream = Lines(Translation(Front(seen)))
                       \o <<"data: {\"type\":\"done\"}\n\n", "data: [DONE]\n\n">>
        /\ SentOfType("done") = CountIn(seen, IsSuccess)
        /\ closeCount = 1
        /\ response = StreamResponse
        /\ (seen = <<TextDelta("Hello"), Result("success")>> =>
               stream = << "data: {\"type\":\"text_delta\",\"text\":\"Hello\"}\n\n",
                           "data: {\"type\":\"done\"}\n\n",
                           "data: [DONE]\n\n" >>)

C8_Witness ==
    /\ iteration = "exhausted"
    /\ messages.items = <<[isNull |-> FALSE, role |-> "user", content |-> "hi"]>>
    /\ seen = <<TextDelta("Hello"), Result("success")>>
    /\ Len(stream) = 3

(***************************************************************************)
(* C9.  When the last agent event is a result with a subtype other than    *)
(* success and the iteration is then exhausted, no done event is emitted   *)
(* for it, the last event before the sentinel is the error event with the  *)
(* message "Query did not complete successfully", triggered by that        *)
(* result, a chat.api.failure counter tagged with the subtype has been     *)
(* emitted, and the stream ends with the sentinel.                         *)
(***************************************************************************)
C9_FailureResultEndsWithErrorThenSentinel ==
    (iteration = "exhausted" /\ seen # <<>> /\ IsFailure(Last(seen))) =>
        /\ Len(stream) >= 2
        /\ Last(stream) = "data: [DONE]\n\n"
        /\ stream[Len(stream) - 1] =
               "data: {\"type\":\"error\",\"message\":\"Query did not complete successfully\"}\n\n"
        /\ sent[Len(sent) - 1].src = Len(seen)
        /\ SentOfType("done") = CountIn(seen, IsSuccess)
        /\ \A i \in 1..Len(sent) : sent[i].src = Len(seen) => sent[i].event.type = "error"
        /\ \E i \in 1..Len(telemetry) :
              /\ telemetry[i].name = "chat.api.failure"
              /\ telemetry[i].attrs.subtype = Last(seen).subtype
        /\ CountIn(telemetry, LAMBDA t : t.name = "chat.api.failure") = CountIn(seen, IsFailure)
        /\ closeCount = 1

C9_Witness ==
    /\ iteration = "exhausted"
    /\ seen = <<TextDelta("Hello"), Result("error_max_turns")>>
    /\ Len(stream) = 3

(***************************************************************************)
(* C10.  A request whose messages is a non-empty array of assistant turns  *)
(* only is answered with status 400 and counted under no_user_message;     *)
(* query() is never called and no stream is opened.                        *)
(***************************************************************************)
OnlyAssistantTurns(m) ==
    /\ IsArray(m) /\ m.items # <<>>
    /\ \A i \in 1..Len(m.items) : ~m.items[i].isNull /\ m.items[i].role = "assistant"

C10_OnlyAssistantTurnsRejected ==
    (ValidatorRan /\ pc # "parsed" /\ OnlyAssistantTurns(messages)) =>
        /\ pc = "responded"
        /\ response.status = 400
        /\ response.contentType = "application/json"
        /\ ApiErrorCounted("no_user_message") = 1
        /\ ApiErrorCounted("invalid_messages") = 0
        /\ queryCalls = 0 /\ iteration = "unopened"
        /\ stream = <<>> /\ closeCount = 0

C10_Witness ==
    /\ pc = "responded"
    /\ Len(messages.items) = 2
    /\ OnlyAssistantTurns(messages)
    /\ response.body = "{\"error\":\"No user message found\"}"

(***************************************************************************)
(* C11.  What the caller receives does not depend on internal error        *)
(* detail.  The chunks of the stream are a function of the agent events    *)
(* with the failure subtypes erased and of how the iteration ended, not of *)
(* the exception caught or of the subtype; every error event carries one   *)
(* of the two fixed messages and every JSON error body is one of the three *)
(* fixed bodies, whatever was thrown.                                      *)
(***************************************************************************)
Redacted(events) ==
    [i \in 1..Len(events) |-> IF IsFailure(events[i]) THEN Result("error") ELSE events[i]]

ClosingChunks ==
    CASE iteration = "exhausted" -> <<"data: [DONE]\n\n">>
      [] iteration \in {"threw", "failed"} ->
             <<"data: {\"type\":\"error\",\"message\":\"Stream error occurred\"}\n\n">>
      [] OTHER -> <<>>

C11_CallerPayloadsAreGeneric ==
    /\ stream = Lines(Translation(Redacted(seen))) \o ClosingChunks
    /\ \A i \in 1..Len(sent) :
          sent[i].event.type = "error" =>
              sent[i].event.message \in
                  {"Query did not complete successfully", "Stream error occurred"}
    /\ response.contentType = "application/json" =>
          response.body \in
              { "{\"error\":\"Messages array is required\"}",
                "{\"error\":\"No user message found\"}",
                "{\"error\":\"Failed to process chat request. Check server logs for details.\"}" }
    /\ ApiErrorCaught =>
          response = JsonResponse(500,
              "{\"error\":\"Failed to process chat request. Check server logs for details.\"}")

C11_Witness ==
    /\ iteration = "threw"
    /\ \E i \in 1..Len(seen) : seen[i] = Result("error_during_execution")
    /\ \E i \in 1..Len(telemetry) :
          /\ telemetry[i].name = "Stream processing error"
          /\ telemetry[i].attrs.error = "spawn claude ENOENT"
    /\ Len(stream) = 2

(***************************************************************************)
(* C12.  For every message list with a user turn, the composite prompt     *)
(* ends with "User: " followed by the content of the last user turn of the *)
(* list; and the prompt in use is the composition of the list alone, so    *)
(* the same list gives the same string.                                    *)
(***************************************************************************)
EndsWith(s, t) == Len(s) >= Len(t) /\ SubSeq(s, Len(s) - Len(t) + 1, Len(s)) = t
StartsWith(s, t) == Len(s) >= Len(t) /\ SubSeq(s, 1, Len(t)) = t

\* the position of the most recent user turn
LastUserIndex(items) ==
    CHOOSE i \in 1..Len(items) :
        /\ items[i].role = "user"
        /\ \A j \in (i + 1)..Len(items) : items[j].role # "user"

Composed == pc \in {"composed", "streaming", "finished"}

C12_PromptEndsWithLastUserTurn ==
    Composed =>
        /\ EndsWith(fullPrompt, "User: " \o messages.items[LastUserIndex(messages.items)].content)
        /\ fullPrompt = FullPrompt(messages.items, messages.items[LastUserIndex(messages.items)])

C12_Witness ==
    /\ pc = "composed"
    /\ messages.items = << [isNull |-> FALSE, role |-> "user", content |-> "hi"],
                           [isNull |-> FALSE, role |-> "assistant", content |-> "ok"] >>
    /\ EndsWith(fullPrompt, "\n\nUser: hi")

(***************************************************************************)
(* C13.  For every message list with a user turn, whatever the role of its *)
(* last turn, the transcript under "Previous conversation:" is, in         *)
(* conversational order, exactly the turns other than the most recent user *)
(* turn (the active prompt): no other turn is left out and the active      *)
(* prompt's turn is not in it; the heading is there only when that         *)
(* transcript is not empty.                                                *)
(* The composer drops the last turn of the list, not the most recent user  *)
(* turn: when the list ends with an assistant turn that turn is left out   *)
(* and the active prompt appears in the transcript, so the statement       *)
(* fails.                                                                  *)
(***************************************************************************)
\* the turns other than the one at position k, in order
AllBut(items, k) ==
    [i \in 1..(Len(items) - 1) |-> IF i < k THEN items[i] ELSE items[i + 1]]

TranscriptOf(turns) == Join([i \in 1..Len(turns) |-> Render(turns[i])], "\n\n")

PromptOverOtherTurns(items) ==
    LET k == LastUserIndex(items)
        others == AllBut(items, k)
    IN  IF others = <<>>
        THEN SYSTEM_PROMPT \o "\n\nUser: " \o items[k].content
        ELSE SYSTEM_PROMPT \o "\n\nPrevious conversation:\n" \o TranscriptOf(others)
                 \o "\n\nUser: " \o items[k].content

C13_TranscriptIsTheOtherTurns ==
    Composed => fullPrompt = PromptOverOtherTurns(messages.items)

(***************************************************************************)
(* C14.  When the agent iteration ends, exhausted or by an exception, the  *)
(* stream is closed: the end of the iteration and the close belong to one  *)
(* uninterrupted continuation of the producer, so the stream is closed in  *)
(* every state in which the iteration has ended.  After exhaustion the     *)
(* sentinel is the chunk enqueued right before the close.  While the       *)
(* iteration is open the stream is open: nothing but a step of the         *)
(* iteration closes it, there is no timeout.                               *)
(***************************************************************************)
C14_EndOfIterationClosesStream ==
    /\ iteration \in {"exhausted", "threw", "failed"} => closeCount = 1
    /\ iteration = "exhausted" =>
          /\ stream # <<>>
          /\ Last(stream) = "data: [DONE]\n\n"
          /\ Last(sent).event = SentinelMark
    /\ iteration = "open" => pc = "streaming" /\ closeCount = 0
    /\ pc = "streaming" => iteration = "open"

C14_Witness ==
    /\ iteration = "exhausted"
    /\ closeCount = 1
    /\ Len(seen) = 2
    /\ Len(stream) = 3

(***************************************************************************)
(* C15.  When the handlers of two requests interleave at their suspension  *)
(* points, the counters of each are the counts of its own agent events,    *)
(* the toolsUsed and textChunks values it logs are the counts of its own   *)
(* events up to the success result being logged, and its stream carries    *)
(* the translation of its own events and nothing else.                     *)
(***************************************************************************)
ToolUseBlocksIn(m) ==
    IF m.type = "assistant" /\ m.content.isArray
    THEN Len(SelectSeq(m.content.blocks, LAMBDA b : b.type = "tool_use"))
    ELSE 0

RECURSIVE ToolUseBlocksOf(_)
ToolUseBlocksOf(events) ==
    IF events = <<>> THEN 0
    ELSE ToolUseBlocksIn(Head(events)) + ToolUseBlocksOf(Tail(events))

CompletionLogsOf(r) ==
    SelectSeq(r.telemetry, LAMBDA t : t.name = "Chat request completed successfully")

\* the positions of the success results among the events
SuccessesIn(events) == { i \in 1..Len(events) : IsSuccess(events[i]) }

\* the position of the k-th success result
KthSuccess(events, k) ==
    CHOOSE i \in SuccessesIn(events) :
        Cardinality({ j \in SuccessesIn(events) : j <= i }) = k

OwnCountsOnly(r) ==
    /\ r.toolsUsedCount = ToolUseBlocksOf(r.seen)
    /\ r.textChunksCount = CountIn(r.seen, IsTextDelta)
    /\ Len(CompletionLogsOf(r)) = Cardinality(SuccessesIn(r.seen))
    /\ \A k \in 1..Len(CompletionLogsOf(r)) :
          LET before == SubSeq(r.seen, 1, KthSuccess(r.seen, k))
          IN  /\ CompletionLogsOf(r)[k].attrs.toolsUsed = ToolUseBlocksOf(before)
              /\ CompletionLogsOf(r)[k].attrs.textChunks = CountIn(before, IsTextDelta)

OwnEventsOnly(r) ==
    LET relayed == SelectSeq(r.sent, LAMBDA c : c.src > 0)
    IN  /\ [i \in 1..Len(relayed) |-> relayed[i].event] = Translation(r.seen)
        /\ SubSeq(r.stream, 1, Len(relayed)) = Lines(Translation(r.seen))
        /\ Len(r.stream) = Len(relayed) + r.closeCount

C15_HandlersDoNotShareState ==
    \A h \in Requests : OwnCountsOnly(handlers[h]) /\ OwnEventsOnly(handlers[h])

\* Both requests are in flight, each has relayed events the other has not,
\* and the first logged its own counts while the second's are different.
C15_Witness ==
    /\ handlers[1].pc = "streaming"
    /\ handlers[2].pc = "streaming"
    /\ handlers[1].seen = <<TextDelta("Hello"), Result("success")>>
    /\ handlers[2].seen =
           <<Assistant(Blocks(<<ToolUse("Bash"), TextBlock, ToolUse("WebSearch")>>))>>
    /\ CompletionLogsOf(handlers[1])[1].attrs.toolsUsed = 0
    /\ CompletionLogsOf(handlers[1])[1].attrs.textChunks = 1
    /\ handlers[2].toolsUsedCount = 2
    /\ Len(handlers[2].stream) = 2

(***************************************************************************)
(* C16.  toolsUsedCount and textChunksCount are zero until an agent event  *)
(* is seen, never decrease, grow by one for each tool_use block and for    *)
(* each text-delta event of the event being processed, and are changed by  *)
(* no other step.                                                          *)
(***************************************************************************)
C16_CountersGrowByOnePerEvent ==
    [][/\ seen = <<>> => toolsUsedCount = 0 /\ textChunksCount = 0
       /\ seen' = <<>> => toolsUsedCount' = 0 /\ textChunksCount' = 0
       /\ toolsUsedCount' >= toolsUsedCount
       /\ textChunksCount' >= textChunksCount
       /\ IF Len(seen') = Len(seen) + 1
          THEN /\ toolsUsedCount' = toolsUsedCount + ToolUseBlocksIn(Last(seen'))
               /\ textChunksCount' =
                      textChunksCount + (IF IsTextDelta(Last(seen')) THEN 1 ELSE 0)
          ELSE /\ toolsUsedCount' = toolsUsedCount
               /\ textChunksCount' = textChunksCount]_vars

C16_Witness ==
    /\ iteration = "threw"
    /\ seen = <<Assistant(Blocks(<<ToolUse("Bash"), TextBlock, ToolUse("WebSearch")>>)),
                TextDelta("Hello"), Result("success")>>
    /\ toolsUsedCount = 2
    /\ textChunksCount = 1

(***************************************************************************)
(* C17.  A tool-progress event adds exactly one tool_progress chunk with   *)
(* its tool and elapsed time and changes neither counter nor the           *)
(* telemetry.  An event of an unrecognised kind, a stream event that is    *)
(* not a text delta and an assistant message without tool_use blocks add   *)
(* no chunk, emit no telemetry and change no counter.                      *)
(***************************************************************************)
IsIgnored(m) ==
    \/ m.type \notin {"stream_event", "assistant", "tool_progress", "result"}
    \/ m.type = "stream_event" /\ ~IsTextDelta(m)
    \/ m.type = "assistant" /\ ToolUseBlocksIn(m) = 0

C17_ProgressPassesThroughOthersIgnored ==
    [][Len(seen') = Len(seen) + 1 =>
          /\ Last(seen').type = "tool_progress" =>
                /\ EventsSent' = Append(EventsSent,
                       ToolProgressEvent(Last(seen').tool_name,
                                         Last(seen').elapsed_time_seconds))
                /\ Len(stream') = Len(stream) + 1
                /\ SubSeq(stream', 1, Len(stream)) = stream
                /\ Last(seen') = ToolProgress("Bash", 2) =>
                       Last(stream') =
                           "data: {\"type\":\"tool_progress\",\"tool\":\"Bash\",\"elapsed\":2}\n\n"
                /\ UNCHANGED <<toolsUsedCount, textChunksCount, telemetry>>
          /\ IsIgnored(Last(seen')) =>
                UNCHANGED <<stream, sent, telemetry, toolsUsedCount, textChunksCount>>]_vars

C17_Witness ==
    /\ seen = <<SystemEvent, Assistant(Blocks(<<TextBlock>>)), ToolProgress("Bash", 2)>>
    /\ stream = <<"data: {\"type\":\"tool_progress\",\"tool\":\"Bash\",\"elapsed\":2}\n\n">>
    /\ toolsUsedCount = 0

(***************************************************************************)
(* C18.  In a stream at most one terminal event is emitted: once a done    *)
(* event is enqueued no error event and no further text_delta, tool_start  *)
(* or tool_progress event is enqueued, also when the agent iteration goes  *)
(* on or throws after the success result.                                  *)
(* The loop does not stop at a result and the catch block does not look at *)
(* what was sent: events after a success result are relayed and an         *)
(* exception after it appends an error event, so the statement fails.      *)
(***************************************************************************)
C18_NothingButSentinelAfterDone ==
    \A i, j \in 1..Len(sent) :
        (i < j /\ sent[i].event.type = "done") => sent[j].event.type = "[DONE]"

(***************************************************************************)
(* C19.  The stream controller is closed exactly once on every path of the *)
(* producer and nothing is enqueued after the close: the chunk of the      *)
(* closing path is the last chunk and the only one of its kind; the normal *)
(* path closes after the sentinel, the exception path after its error      *)
(* event, and never both.                                                  *)
(***************************************************************************)
C19_ClosedOnceNothingAfter ==
    /\ closeCount <= 1
    /\ pc = "finished" => closeCount = 1
    /\ closeCount = 0 => \A i \in 1..Len(sent) : sent[i].src > 0
    /\ closeCount = 1 =>
          /\ sent # <<>>
          /\ Last(sent).src = 0
          /\ \A i \in 1..(Len(sent) - 1) : sent[i].src > 0
          /\ \/ iteration = "exhausted" /\ Last(sent).event = SentinelMark
             \/ /\ iteration \in {"threw", "failed"}
                /\ Last(sent).event = ErrorEvent("Stream error occurred")

C19_Witness ==
    /\ closeCount = 1
    /\ iteration = "threw"
    /\ Len(sent) = 4
    /\ Len(seen) = 3

(***************************************************************************)
(* C20.  query() is called at most once in a request and only after        *)
(* validation has passed: a request answered with status 400 or 500 has    *)
(* not called it, and a request that has called it is answered with the    *)
(* event stream, never with 400 or 500.                                    *)
(***************************************************************************)
C20_QueryOnlyAfterValidation ==
    /\ queryCalls <= 1
    /\ iteration # "unopened" => queryCalls = 1
    /\ queryCalls = 1 =>
          /\ response = StreamResponse
          /\ IsArray(messages)
          /\ \A i \in 1..Len(messages.items) : ~messages.items[i].isNull
          /\ \E i \in 1..Len(messages.items) : messages.items[i].role = "user"
    /\ response.status \in {400, 500} =>
          queryCalls = 0 /\ iteration = "unopened" /\ stream = <<>>

C20_Witness ==
    /\ queryCalls = 1
    /\ iteration = "failed"
    /\ response.status = 200
    /\ pc = "finished"

====
